---- MODULE Spec2Model ----
(***************************************************************************)
(* DS-slot ROM access core of Dust: the file-backed cartridge contents     *)
(* (frontend/desktop/src/emu/ds_slot_rom.rs), the KEY1 block cipher        *)
(* (core/src/ds_slot/rom/key1.rs) and the Normal ROM device                *)
(* (core/src/ds_slot/rom/normal.rs).                                       *)
(*                                                                         *)
(* Bytes are naturals in 0..255 and byte buffers are sequences (index 1 is *)
(* offset 0).  A u32 is the pair <<high half, low half>> of 16-bit halves, *)
(* so that every intermediate value of its arithmetic is a small integer;  *)
(* addresses and lengths (usize) are plain integers.                       *)
(***************************************************************************)
EXTENDS Integers, Sequences, FiniteSets, TLC

(***************************************************************************)
(* Bounds of the model.                                                    *)
(***************************************************************************)
\* Number of 8-byte blocks of the secure area that the model carries (the
\* code's secure area is Bytes<0x800>, 0x100 blocks).
SecureBlocks == 2
\* Largest number of setup calls in one run (each call may transform the
\* secure area once more).
MaxSetups == 2

SecureAreaLen == 8 * SecureBlocks

(***************************************************************************)
(* Program constants.                                                      *)
(***************************************************************************)
PAGE == 4096            \* 0x1000
KEY2_MIN_ADDR == 32768  \* 0x8000
OUTPUT_CAP == 16384     \* 0x4000, Bytes<0x4000>

Min(a, b) == IF a <= b THEN a ELSE b

\* 0xE7FF_DEFF_E7FF_DEFF as read_le::<u64>: the bytes in memory order.
MAGIC == <<255, 222, 255, 231, 255, 222, 255, 231>>
\* b"encryObj"
ENCRY_OBJ == <<101, 110, 99, 114, 121, 79, 98, 106>>

(***************************************************************************)
(* 32-bit words.                                                           *)
(***************************************************************************)
Bit(a, b, k) == (((a \div k) + (b \div k)) % 2) * k
XorByte(a, b) ==
    Bit(a, b, 1) + Bit(a, b, 2) + Bit(a, b, 4) + Bit(a, b, 8)
    + Bit(a, b, 16) + Bit(a, b, 32) + Bit(a, b, 64) + Bit(a, b, 128)
Xor8Row(a) == [b \in 0..255 |-> XorByte(a, b)] @@ <<>>
Xor8 == [a \in 0..255 |-> Xor8Row(a)] @@ <<>>
Xor16(a, b) == (Xor8[a \div 256][b \div 256] * 256) + Xor8[a % 256][b % 256]
\* a ^ b
XorW(a, b) == <<Xor16(a[1], b[1]), Xor16(a[2], b[2])>>
\* a.wrapping_add(b)
AddW(a, b) ==
    LET lo == a[2] + b[2]
    IN <<(a[1] + b[1] + (lo \div 65536)) % 65536, lo % 65536>>

\* read_le::<u32>(off) and write_le over a byte sequence (off counts from 0).
ReadLe32(bytes, off) ==
    <<bytes[off + 3] + (256 * bytes[off + 4]), bytes[off + 1] + (256 * bytes[off + 2])>>
Le32Bytes(w) == <<w[2] % 256, w[2] \div 256, w[1] % 256, w[1] \div 256>>
\* read_be::<u32>(off) and write_be.
ReadBe32(bytes, off) ==
    <<(256 * bytes[off + 1]) + bytes[off + 2], (256 * bytes[off + 3]) + bytes[off + 4]>>
Be32Bytes(w) == <<w[1] \div 256, w[1] % 256, w[2] \div 256, w[2] % 256>>

(***************************************************************************)
(* KEY1 cipher.  A key buffer is named by a natural number k; its 0x412    *)
(* table words are KeyBufWord(k, i).  The tables are input data of the     *)
(* cipher: the schedule that fills them from the BIOS is not modelled, the *)
(* tables are drawn from a family of fixed contents.                       *)
(***************************************************************************)
KeyBufWord(k, i) ==
    <<((i * 40503) + (k * 977) + 12345) % 65536,
      ((i * 25173) + (k * 13849) + ((i \div 3) * 7)) % 65536>>

\* The round function shared by encrypt_64_bit and decrypt_64_bit.
Feistel(k, z) ==
    AddW(XorW(AddW(KeyBufWord(k, 18 + (z[1] \div 256)),
                   KeyBufWord(k, 274 + (z[1] % 256))),
              KeyBufWord(k, 530 + (z[2] \div 256))),
         KeyBufWord(k, 786 + (z[2] % 256)))

\* One pass of the loop body: z = x ^ key_buf[i]; x = F(z) ^ y; y = z.
RECURSIVE EncRounds(_, _, _, _)
EncRounds(k, y, x, i) ==
    IF i = 16 THEN <<XorW(x, KeyBufWord(k, 16)), XorW(y, KeyBufWord(k, 17))>>
    ELSE CHOOSE r \in {EncRounds(k, z, XorW(Feistel(k, z), y), i + 1) :
                          z \in {XorW(x, KeyBufWord(k, i))}} : TRUE

encrypt_64_bit(k, p) == EncRounds(k, p[1], p[2], 0)

RECURSIVE DecRounds(_, _, _, _)
DecRounds(k, y, x, i) ==
    IF i = 1 THEN <<XorW(x, KeyBufWord(k, 1)), XorW(y, KeyBufWord(k, 0))>>
    ELSE CHOOSE r \in {DecRounds(k, z, XorW(Feistel(k, z), y), i - 1) :
                          z \in {XorW(x, KeyBufWord(k, i))}} : TRUE

\* decrypt_64_bit with its loop running from 16 instead of 17.
decrypt_64_bit_from_16(k, p) == DecRounds(k, p[1], p[2], 16)

decrypt_64_bit(k, p) == DecRounds(k, p[1], p[2], 17)

\* KeyBuffer::<false>::level_3: the level-3 buffer derived from a level-2 one
\* (level-2 buffers have even names, their level-3 buffers the next odd one).
level_3(k) == k + 1

(***************************************************************************)
(* State.                                                                  *)
(***************************************************************************)
VARIABLES
    file,             \* the ROM file: [len, secure_area_start, plain]
    overflow_checks,  \* TRUE: arithmetic overflow panics (debug build); FALSE: it wraps
    secure_area,      \* File::secure_area: [st |-> "none" | "failed" | "present", bytes]
    dldi_area_start,  \* File::dldi_area_start
    dldi_area_end,    \* File::dldi_area_end
    dldi_area,        \* File::dldi_area, as secure_area
    rom_mask,         \* Normal::rom_mask
    chip_id,          \* Normal::chip_id
    key_buf,          \* Normal::key_buf: 0 is None, otherwise the level-2 key buffer
    stage,            \* Normal::stage
    output,           \* the bytes output[..n] of the last call that filled a buffer
    last,             \* the last call: what was called, with what, and how it ended
    setups,           \* number of setup calls so far
    panicked          \* the process has aborted (a panic)

vars == <<file, overflow_checks, secure_area, dldi_area_start, dldi_area_end, dldi_area,
          rom_mask, chip_id, key_buf, stage, output, last, setups, panicked>>

contentsVars == <<secure_area, dldi_area_start, dldi_area_end, dldi_area>>
deviceVars == <<rom_mask, chip_id, key_buf>>
fixedVars == <<file, overflow_checks>>

(***************************************************************************)
(* The ROM file.  Its bytes are fixed by the record that names it: the     *)
(* header's secure-area start at offset 0x20, the plaintext magic at the   *)
(* secure-area start when the image is a decrypted dump, a pattern         *)
(* elsewhere.                                                              *)
(***************************************************************************)
Pattern(a) == (((a % 256) * 3) + (((a \div 256) % 256) * 5) + ((a \div 65536) % 256) + 1) % 256

FileByte(f, a) ==
    IF a >= 32 /\ a < 36
    THEN (f.secure_area_start \div (256 ^ (a - 32))) % 256
    ELSE IF f.plain /\ a >= f.secure_area_start /\ a < f.secure_area_start + 8
         THEN MAGIC[(a - f.secure_area_start) + 1]
         ELSE Pattern(a)

FileBytes(f, addr, n) == [k \in 1..n |-> FileByte(f, addr + k - 1)]

RECURSIVE next_power_of_two(_)
next_power_of_two(n) == IF n <= 1 THEN 1 ELSE 2 * next_power_of_two((n + 1) \div 2)

\* Contents::len for File
ContentsLen == next_power_of_two(file.len)

\* The header field read by setup: buf.read_le::<u32>(0x20) after read_header,
\* which reads the file itself.
HeaderSecureAreaStart ==
    FileByte(file, 32) + (256 * FileByte(file, 33)) + (65536 * FileByte(file, 34))
    + (16777216 * FileByte(file, 35))

(***************************************************************************)
(* File::read_slice.  A result is [ok, out]; ok = FALSE is a panic.        *)
(***************************************************************************)
Panic == [ok |-> FALSE, out |-> <<>>]

\* seek, read_len = output.len().min(self.len - addr), zero fill of the tail,
\* read_exact of the head.
BaseRead(addr, n) ==
    IF addr > file.len
    THEN \* self.len - addr overflows: a panic when overflow is checked; wrapped, it
         \* leaves read_len = output.len() and read_exact runs into the end of file.
         IF overflow_checks \/ n > 0 THEN Panic ELSE [ok |-> TRUE, out |-> <<>>]
    ELSE LET read_len == Min(n, file.len - addr)
         IN [ok |-> TRUE,
             out |-> [k \in 1..n |-> IF k <= read_len THEN FileByte(file, addr + k - 1) ELSE 0]]

\* (start_src_i, start_dst_i) of apply_overlay!
OverlayStarts(addr, start) ==
    IF addr < start THEN <<0, start - addr>> ELSE <<addr - start, 0>>

\* let len = output.len().min(0x800 - start_src_i): -1 stands for the overflow panic.
OverlayCopyLen(n, src) ==
    IF src > SecureAreaLen
    THEN IF overflow_checks THEN -1 ELSE n
    ELSE Min(n, SecureAreaLen - src)

\* apply_overlay!($bytes, $start, $end) on the result r of the steps before it.
ApplyOverlay(r, area, start, end, addr) ==
    LET n == Len(r.out)
    IN IF ~r.ok THEN r
       ELSE IF area.st = "present" /\ addr < end /\ addr + n > start
            THEN LET se == OverlayStarts(addr, start)
                     src == se[1]
                     dst == se[2]
                     len == OverlayCopyLen(n, src)
                 IN IF len < 0 \/ dst + len > n \/ src + len > Len(area.bytes)
                    THEN Panic
                    ELSE [ok |-> TRUE,
                          out |-> [k \in 1..n |->
                                      IF k > dst /\ k <= dst + len
                                      THEN area.bytes[src + (k - dst)]
                                      ELSE r.out[k]]]
            ELSE r

read_slice(addr, n) ==
    ApplyOverlay(
        ApplyOverlay(BaseRead(addr, n), secure_area, file.secure_area_start,
                     file.secure_area_start + SecureAreaLen, addr),
        dldi_area, dldi_area_start, dldi_area_end, addr)

\* The closure of get_or_insert_with in secure_area_mut and dldi_area_mut: seek
\* and read_exact of len bytes at start; io is whether the device delivers.
Materialize(start, len, io) ==
    IF io /\ start + len <= file.len
    THEN [st |-> "present", bytes |-> FileBytes(file, start, len)]
    ELSE [st |-> "failed", bytes |-> <<>>]

\* secure_area_mut reading the file again after a read that failed.
secure_area_mut_retries(io) ==
    IF secure_area.st # "present"
    THEN Materialize(file.secure_area_start, SecureAreaLen, io)
    ELSE secure_area

\* secure_area_mut: the overlay after the call (Some iff st = "present").
secure_area_mut(io) ==
    IF secure_area.st = "none"
    THEN Materialize(file.secure_area_start, SecureAreaLen, io)
    ELSE secure_area

\* dldi_area_mut taking the window of every call.
dldi_area_mut_rewindows(addr, len, io) ==
    IF dldi_area.st = "none"
    THEN <<Materialize(addr, len, io), addr, addr + len>>
    ELSE <<dldi_area, addr, addr + len>>

\* dldi_area_mut(addr, len): <<dldi_area, dldi_area_start, dldi_area_end>> after the call.
dldi_area_mut(addr, len, io) ==
    IF dldi_area.st = "none"
    THEN <<Materialize(addr, len, io), addr, addr + len>>
    ELSE <<dldi_area, dldi_area_start, dldi_area_end>>

(***************************************************************************)
(* Normal::new                                                             *)
(***************************************************************************)
\* is_valid_size is not part of the sources at hand: a supported length is a
\* power of two.
is_valid_size(len) == len = next_power_of_two(len)

OrBit(a, b, k) == IF ((a \div k) % 2) + ((b \div k) % 2) > 0 THEN k ELSE 0
\* a | b on bytes
OrByte(a, b) ==
    OrBit(a, b, 1) + OrBit(a, b, 2) + OrBit(a, b, 4) + OrBit(a, b, 8)
    + OrBit(a, b, 16) + OrBit(a, b, 32) + OrBit(a, b, 64) + OrBit(a, b, 128)

\* The match on len as u32; every arm is below 0x100.
SizeCode(len) ==
    IF len <= 1048575 THEN 0
    ELSE IF len <= 268435455 THEN (len \div 1048576) - 1
    ELSE 256 - (len \div 268435456)

\* let chip_id = 0x0000_00C2 | match len as u32 { ... }
ChipIdOf(len) == OrByte(194, SizeCode(len))

\* chip_id as written by output.write_le(i, chip_id)
ChipIdBytes == <<chip_id % 256, (chip_id \div 256) % 256, (chip_id \div 65536) % 256,
                 chip_id \div 16777216>>

\* The record of a call: op with its arguments (cmd, n, addr, db), the stage it
\* found (stage0), how it ended (res: "ok", "err" or "panic") and, for setup, the
\* secure area it found (sa0) and the call before it (prev, when that was a setup
\* too); for secure_area_mut and dldi_area_mut, prev holds the overlay they found.
\* For reset, sa0 is the secure area it found and prev the setup call before it;
\* a setup that follows such a reset keeps both in before.
NoCall == [op |-> "new", cmd |-> <<>>, n |-> 0, addr |-> 0, db |-> FALSE,
           stage0 |-> "Initial", res |-> "ok", sa0 |-> <<>>, prev |-> <<>>,
           before |-> <<>>]

\* The setup call a call follows directly, as later calls remember it.
PrevSetup ==
    IF last.op = "setup" THEN <<[db |-> last.db, res |-> last.res, sa0 |-> last.sa0]>>
    ELSE <<>>

\* The state after DsSlotRom::new chose the File backend and Normal::new accepted
\* it.  bios = 0: no ARM7 BIOS was given; otherwise the key buffer built from it.
InitWith(Files, Bioses) ==
    /\ file \in Files
    /\ is_valid_size(ContentsLen)
    /\ overflow_checks \in BOOLEAN
    /\ secure_area = [st |-> "none", bytes |-> <<>>]
    /\ dldi_area_start = 0
    /\ dldi_area_end = 0
    /\ dldi_area = [st |-> "none", bytes |-> <<>>]
    /\ rom_mask = ContentsLen - 1
    /\ chip_id = ChipIdOf(ContentsLen)
    /\ key_buf \in {2 * b : b \in Bioses}
    /\ stage = "Initial"
    /\ output = <<>>
    /\ last = NoCall
    /\ setups = 0
    /\ panicked = FALSE

\* What every call leaves behind: the record of the call, and the abort.
Called(c) ==
    /\ last' = c
    /\ panicked' = (c.res = "panic")

(***************************************************************************)
(* Normal::reset                                                           *)
(***************************************************************************)
\* Reset constructing the device over contents without their overlays.
ResetDropsOverlays ==
    /\ ~panicked
    /\ stage' = "Initial"
    /\ secure_area' = [st |-> "none", bytes |-> <<>>]
    /\ Called([NoCall EXCEPT !.op = "reset", !.stage0 = stage,
                             !.sa0 = secure_area.bytes, !.prev = PrevSetup])
    /\ UNCHANGED <<fixedVars, dldi_area_start, dldi_area_end, dldi_area, deviceVars, output,
                   setups>>

Reset ==
    /\ ~panicked
    /\ stage' = "Initial"
    /\ Called([NoCall EXCEPT !.op = "reset", !.stage0 = stage,
                             !.sa0 = secure_area.bytes, !.prev = PrevSetup])
    /\ UNCHANGED <<fixedVars, contentsVars, deviceVars, output, setups>>

(***************************************************************************)
(* RomDevice::read for Normal                                              *)
(***************************************************************************)
\* r1 followed by r2, a panic in either being a panic of the whole.
Cat(r1, r2) ==
    IF r1.ok /\ r2.ok THEN [ok |-> TRUE, out |-> r1.out \o r2.out] ELSE Panic

\* while i < output.len() { read_slice(0, &mut output[i..end_i]); i += rom_len }
RECURSIVE ReadWraps(_, _, _)
ReadWraps(i, n, rom_len) ==
    IF i >= n THEN [ok |-> TRUE, out |-> <<>>]
    ELSE LET first == read_slice(0, Min(i + rom_len, n) - i)
         IN IF first.ok THEN Cat(first, ReadWraps(i + rom_len, n, rom_len)) ELSE Panic

NormalRead(a, n) ==
    LET addr == a % (rom_mask + 1)
        rom_len == rom_mask + 1
        first_read_max_len == rom_len - addr
    IN IF n <= first_read_max_len
       THEN read_slice(addr, n)
       ELSE LET first == read_slice(addr, first_read_max_len)
            IN IF first.ok THEN Cat(first, ReadWraps(first_read_max_len, n, rom_len))
               ELSE Panic

Read(a, n) ==
    /\ ~panicked
    /\ LET r == NormalRead(a, n)
       IN /\ output' = IF r.ok THEN r.out ELSE output
          /\ Called([NoCall EXCEPT !.op = "read", !.addr = a, !.n = n, !.stage0 = stage,
                                   !.res = IF r.ok THEN "ok" ELSE "panic"])
    /\ UNCHANGED <<fixedVars, contentsVars, deviceVars, stage, setups>>

(***************************************************************************)
(* RomDevice::handle_rom_command for Normal                                *)
(***************************************************************************)
Fill(n, b) == [k \in 1..n |-> b]

\* for i in (0..output_len).step_by(4) { output.write_le(i, chip_id) }
ChipIdPattern(n) == [k \in 1..n |-> ChipIdBytes[((k - 1) % 4) + 1]]

\* cmd.read_be::<u64>(0) & 0x00FF_FFFF_FFFF_FFFF == 0
LowBitsZero(cmd) == \A i \in 2..8 : cmd[i] = 0

\* for start_i in (0..output_len).step_by(0x1000) { read_slice(addr, ...) }
RECURSIVE ChunkedRead(_, _, _)
ChunkedRead(addr, start_i, n) ==
    IF start_i >= n THEN [ok |-> TRUE, out |-> <<>>]
    ELSE LET chunk == read_slice(addr, Min(PAGE, n - start_i))
         IN IF chunk.ok THEN Cat(chunk, ChunkedRead(addr, start_i + PAGE, n)) ELSE Panic

\* The KEY1 command as decrypted in place with the level-2 key buffer.
DecryptCmd(k, cmd) ==
    LET res == decrypt_64_bit(k, <<ReadBe32(cmd, 4), ReadBe32(cmd, 0)>>)
    IN Be32Bytes(res[2]) \o Be32Bytes(res[1])

\* The raw command that DecryptCmd turns into cmd (what a game sends in KEY1 mode).
EncryptCmd(k, cmd) ==
    LET res == encrypt_64_bit(k, <<ReadBe32(cmd, 4), ReadBe32(cmd, 0)>>)
    IN Be32Bytes(res[2]) \o Be32Bytes(res[1])

\* Key2ReadAddr without the redirection of the addresses below 0x8000.
Key2ReadAddrAsSent(cmd) ==
    (((cmd[2] % 64) * 16777216) + (cmd[3] * 65536) + (cmd[4] * 256) + cmd[5]) % (rom_mask + 1)

\* let mut addr = (cmd.read_be::<u32>(1) & self.rom_mask) as usize;
\* if addr < 0x8000 { addr = 0x8000 | (addr & 0x1FF); }
Key2ReadAddr(cmd) ==
    \* (the two top bits of the 32-bit address are left out: rom_mask clears them
    \* for every image below 2^30 bytes)
    LET addr == (((cmd[2] % 64) * 16777216) + (cmd[3] * 65536) + (cmd[4] * 256) + cmd[5])
                % (rom_mask + 1)
    IN IF addr < KEY2_MIN_ADDR THEN KEY2_MIN_ADDR + (addr % 512) ELSE addr

\* while start_i < output_len { read_slice(addr, ..len); addr = page_start; start_i += len }
RECURSIVE PageRead(_, _, _, _)
PageRead(addr, page_start, start_i, n) ==
    IF start_i >= n THEN [ok |-> TRUE, out |-> <<>>]
    ELSE LET len == Min((page_start + PAGE) - addr, n - start_i)
             chunk == read_slice(addr, len)
         IN IF chunk.ok THEN Cat(chunk, PageRead(page_start, page_start, start_i + len, n))
            ELSE Panic

Done(st, out) == [stage |-> st, ok |-> TRUE, out |-> out]
DoneRead(st, r) == [stage |-> st, ok |-> r.ok, out |-> r.out]

\* CommandInitial with 0x3C entering KEY2 at once.
CommandInitialSkipsKey1(cmd, n) ==
    IF cmd[1] = 159 /\ LowBitsZero(cmd) THEN Done("Initial", Fill(n, 255))
    ELSE IF cmd[1] = 0 /\ LowBitsZero(cmd) THEN DoneRead("Initial", ChunkedRead(0, 0, n))
    ELSE IF cmd[1] = 144 /\ LowBitsZero(cmd) THEN Done("Initial", ChipIdPattern(n))
    ELSE IF cmd[1] = 60 THEN Done("Key2", Fill(n, 255))
    ELSE Done("Initial", Fill(n, 255))

\* Stage::Initial
CommandInitial(cmd, n) ==
    IF cmd[1] = 159 /\ LowBitsZero(cmd) THEN Done("Initial", Fill(n, 255))
    ELSE IF cmd[1] = 0 /\ LowBitsZero(cmd) THEN DoneRead("Initial", ChunkedRead(0, 0, n))
    ELSE IF cmd[1] = 144 /\ LowBitsZero(cmd) THEN Done("Initial", ChipIdPattern(n))
    ELSE IF cmd[1] = 60 THEN Done("Key1", Fill(n, 255))
    ELSE Done("Initial", Fill(n, 255))

\* Stage::Key1, after the decryption of the command
CommandKey1Decrypted(cmd, n) ==
    LET op == cmd[1] \div 16
    IN IF op = 4 THEN Done("Key1", Fill(n, 255))
       ELSE IF op = 1 THEN Done("Key1", ChipIdPattern(n))
       ELSE IF op = 2
            THEN DoneRead("Key1", ChunkedRead(16384 + (((cmd[3] \div 16) % 4) * 4096), 0, n))
       ELSE IF op = 10 THEN Done("Key2", Fill(n, 0))
       ELSE Done("Key1", Fill(n, 0))

\* Stage::Key1: key_buf.as_ref().expect("key_buf should be initialized")
CommandKey1(cmd, n) ==
    IF key_buf = 0 THEN [stage |-> "Key1", ok |-> FALSE, out |-> <<>>]
    ELSE CommandKey1Decrypted(DecryptCmd(key_buf, cmd), n)

\* Stage::Key2
CommandKey2(cmd, n) ==
    IF cmd[1] = 183
    THEN LET addr == Key2ReadAddr(cmd)
             page_start == addr - (addr % PAGE)
         IN DoneRead("Key2", PageRead(addr, page_start, 0, n))
    ELSE IF cmd[1] = 184 /\ LowBitsZero(cmd) THEN Done("Key2", ChipIdPattern(n))
    ELSE Done("Key2", Fill(n, 0))

\* match self.stage
Command(cmd, n) ==
    IF stage = "Initial" THEN CommandInitial(cmd, n)
    ELSE IF stage = "Key1" THEN CommandKey1(cmd, n)
    ELSE CommandKey2(cmd, n)

HandleRomCommand(cmd, n) ==
    /\ ~panicked
    /\ n % 4 = 0
    /\ n <= OUTPUT_CAP
    /\ LET r == Command(cmd, n)
       IN /\ stage' = r.stage
          /\ output' = IF r.ok THEN r.out ELSE output
          /\ Called([NoCall EXCEPT !.op = "cmd", !.cmd = cmd, !.n = n, !.stage0 = stage,
                                   !.res = IF r.ok THEN "ok" ELSE "panic"])
    /\ UNCHANGED <<fixedVars, contentsVars, deviceVars, setups>>

(***************************************************************************)
(* RomDevice::setup for Normal                                             *)
(***************************************************************************)
\* let res = key.decrypt_64_bit([sa.read_le(i), sa.read_le(i + 4)]);
\* sa.write_le(i, res[0]); sa.write_le(i + 4, res[1]): the 8 bytes written.
DecryptedBlock(k, bytes, i) ==
    LET res == decrypt_64_bit(k, <<ReadLe32(bytes, i), ReadLe32(bytes, i + 4)>>)
    IN Le32Bytes(res[1]) \o Le32Bytes(res[2])

EncryptedBlock(k, bytes, i) ==
    LET res == encrypt_64_bit(k, <<ReadLe32(bytes, i), ReadLe32(bytes, i + 4)>>)
    IN Le32Bytes(res[1]) \o Le32Bytes(res[2])

From(bytes, off) == SubSeq(bytes, off + 1, Len(bytes))

\* for i in (0..0x800).step_by(8) { decrypt the block at i }
RECURSIVE DecryptBlocksFrom(_, _, _)
DecryptBlocksFrom(k, bytes, i) ==
    IF i >= Len(bytes) THEN <<>>
    ELSE DecryptedBlock(k, bytes, i) \o DecryptBlocksFrom(k, bytes, i + 8)

RECURSIVE EncryptBlocksFrom(_, _, _)
EncryptBlocksFrom(k, bytes, i) ==
    IF i >= Len(bytes) THEN <<>>
    ELSE EncryptedBlock(k, bytes, i) \o EncryptBlocksFrom(k, bytes, i + 8)

\* The direct-boot transformation of a secure area that does not start with the
\* magic: bytes [0, 8) with the level-2 buffer, then every block with level 3.
DecryptSecureArea(k, bytes) ==
    LET first == DecryptedBlock(k, bytes, 0) \o From(bytes, 8)
    IN DecryptBlocksFrom(level_3(k), first, 0)

\* The transformation of a secure area that starts with the magic when not
\* booting directly: "encryObj", every block with level 3, bytes [0, 8) with level 2.
EncryptSecureArea(k, bytes) ==
    LET marked == ENCRY_OBJ \o From(bytes, 8)
        all == EncryptBlocksFrom(level_3(k), marked, 0)
    IN EncryptedBlock(k, all, 0) \o From(all, 8)

StartsWithMagic(bytes) == Len(bytes) >= 8 /\ SubSeq(bytes, 1, 8) = MAGIC

is_homebrew == ~(HeaderSecureAreaStart >= 16384 /\ HeaderSecureAreaStart < 32768)

Present(bytes) == [st |-> "present", bytes |-> bytes]

\* SetupDirectBoot decrypting whatever the secure area starts with.
SetupDirectBootAlwaysDecrypts(sa) ==
    IF is_homebrew THEN [stage |-> "Key2", secure_area |-> secure_area, res |-> "ok"]
    ELSE IF sa.st # "present" THEN [stage |-> "Key2", secure_area |-> sa, res |-> "ok"]
    ELSE IF key_buf = 0 THEN [stage |-> "Key2", secure_area |-> sa, res |-> "err"]
    ELSE [stage |-> "Key2", secure_area |-> Present(DecryptSecureArea(key_buf, sa.bytes)),
          res |-> "ok"]

\* if direct_boot { ... }: sa is the overlay as secure_area_mut left it.
SetupDirectBoot(sa) ==
    IF is_homebrew THEN [stage |-> "Key2", secure_area |-> secure_area, res |-> "ok"]
    ELSE IF sa.st # "present" THEN [stage |-> "Key2", secure_area |-> sa, res |-> "ok"]
    ELSE IF StartsWithMagic(sa.bytes) THEN [stage |-> "Key2", secure_area |-> sa, res |-> "ok"]
    ELSE IF key_buf = 0 THEN [stage |-> "Key2", secure_area |-> sa, res |-> "err"]
    ELSE [stage |-> "Key2", secure_area |-> Present(DecryptSecureArea(key_buf, sa.bytes)),
          res |-> "ok"]

\* SetupEncrypt leaving the device in stage Initial, as a fresh device.
SetupEncryptResetsStage(sa) ==
    IF sa.st # "present" THEN [stage |-> "Initial", secure_area |-> sa, res |-> "ok"]
    ELSE IF key_buf = 0 THEN [stage |-> "Initial", secure_area |-> sa, res |-> "panic"]
    ELSE IF StartsWithMagic(sa.bytes)
         THEN [stage |-> "Initial",
               secure_area |-> Present(EncryptSecureArea(key_buf, sa.bytes)), res |-> "ok"]
    ELSE [stage |-> "Initial", secure_area |-> sa, res |-> "ok"]

\* else { ... }
SetupEncrypt(sa) ==
    IF sa.st # "present" THEN [stage |-> stage, secure_area |-> sa, res |-> "ok"]
    ELSE IF key_buf = 0 THEN [stage |-> stage, secure_area |-> sa, res |-> "panic"]
    ELSE IF StartsWithMagic(sa.bytes)
         THEN [stage |-> stage, secure_area |-> Present(EncryptSecureArea(key_buf, sa.bytes)),
               res |-> "ok"]
    ELSE [stage |-> stage, secure_area |-> sa, res |-> "ok"]

Setup(direct_boot, io) ==
    /\ ~panicked
    /\ setups < MaxSetups
    /\ LET sa == secure_area_mut(io)
           r == IF direct_boot THEN SetupDirectBoot(sa) ELSE SetupEncrypt(sa)
       IN /\ stage' = r.stage
          /\ secure_area' = r.secure_area
          /\ Called([NoCall EXCEPT !.op = "setup", !.db = direct_boot, !.stage0 = stage,
                                   !.res = r.res,
                                   !.sa0 = IF direct_boot /\ is_homebrew THEN <<>>
                                           ELSE sa.bytes,
                                   !.prev = PrevSetup,
                                   !.before = IF last.op = "reset" /\ last.prev # <<>>
                                              THEN <<[db |-> last.prev[1].db,
                                                      res |-> last.prev[1].res,
                                                      sa1 |-> last.sa0]>>
                                              ELSE <<>>])
    /\ setups' = setups + 1
    /\ UNCHANGED <<fixedVars, dldi_area_start, dldi_area_end, dldi_area, deviceVars, output>>

(***************************************************************************)
(* The contents as the host uses them directly (Normal::contents).         *)
(***************************************************************************)
\* bytes with the bytes w stored at offset off
Store(bytes, off, w) ==
    [k \in 1..Len(bytes) |-> IF k > off /\ k <= off + Len(w) THEN w[k - off] ELSE bytes[k]]

ReadSlice(addr, n) ==
    /\ ~panicked
    /\ LET r == read_slice(addr, n)
       IN /\ output' = IF r.ok THEN r.out ELSE output
          /\ Called([NoCall EXCEPT !.op = "read_slice", !.addr = addr, !.n = n,
                                   !.stage0 = stage,
                                   !.res = IF r.ok THEN "ok" ELSE "panic"])
    /\ UNCHANGED <<fixedVars, contentsVars, deviceVars, stage, setups>>

\* secure_area_mut() and what the caller stores through the slice it got (w at off)
SecureAreaMut(io, off, w) ==
    /\ ~panicked
    /\ off + Len(w) <= SecureAreaLen
    /\ LET sa == secure_area_mut(io)
       IN /\ secure_area' = IF sa.st = "present" THEN Present(Store(sa.bytes, off, w)) ELSE sa
          /\ Called([NoCall EXCEPT !.op = "secure_area_mut", !.addr = off, !.cmd = w,
                                   !.stage0 = stage,
                                   !.res = IF sa.st = "present" THEN "ok" ELSE "err",
                                   !.prev = <<secure_area>>])
    /\ UNCHANGED <<fixedVars, dldi_area_start, dldi_area_end, dldi_area, deviceVars, stage,
                   output, setups>>

\* dldi_area_mut(addr, len) and what the caller stores through the slice it got
DldiAreaMut(addr, len, io, w) ==
    /\ ~panicked
    /\ LET d == dldi_area_mut(addr, len, io)
       IN /\ dldi_area' = IF d[1].st = "present" /\ Len(w) <= Len(d[1].bytes)
                          THEN Present(Store(d[1].bytes, 0, w))
                          ELSE d[1]
          /\ dldi_area_start' = d[2]
          /\ dldi_area_end' = d[3]
          /\ Called([NoCall EXCEPT !.op = "dldi_area_mut", !.addr = addr, !.n = len,
                                   !.cmd = w, !.stage0 = stage,
                                   !.res = IF d[1].st = "present" THEN "ok" ELSE "err",
                                   !.prev = <<dldi_area>>])
    /\ UNCHANGED <<fixedVars, secure_area, deviceVars, stage, output, setups>>

(***************************************************************************)
(* Inputs.                                                                 *)
(***************************************************************************)
\* ROM files: an encrypted commercial dump and a decrypted one (0x18000 bytes,
\* secure area at 0x4000), and a homebrew image (0x10000 bytes, header field 0x200).
EncryptedRom == [len |-> 98304, secure_area_start |-> 16384, plain |-> FALSE]
DecryptedRom == [len |-> 98304, secure_area_start |-> 16384, plain |-> TRUE]
HomebrewRom == [len |-> 65536, secure_area_start |-> 512, plain |-> FALSE]

\* Booting without an ARM7 BIOS (0) and with the one BIOS of the model (1).
Bioses == {0, 1}

Cmd(b0, b1, b2, b3, b4, b7) == <<b0, b1, b2, b3, b4, 0, 0, b7>>

\* Raw commands: 9F, 00, 90, 3C, B7 (address 0x8000), B8, FF, and 9F/00/90/B8 with
\* a low bit set.
RawCmds ==
    {Cmd(159, 0, 0, 0, 0, 0), Cmd(159, 0, 0, 0, 0, 1), Cmd(0, 0, 0, 0, 0, 0),
     Cmd(0, 0, 0, 0, 0, 1), Cmd(144, 0, 0, 0, 0, 0), Cmd(144, 0, 0, 0, 0, 1),
     Cmd(60, 0, 0, 0, 0, 0), Cmd(183, 0, 0, 128, 0, 0), Cmd(184, 0, 0, 0, 0, 0),
     Cmd(184, 0, 0, 0, 0, 1), Cmd(255, 0, 0, 0, 0, 0)}

\* KEY1 commands before their encryption: 4x, 1x, 2x (secure area block 0), Ax, 3x.
Key1Cmds ==
    {Cmd(64, 0, 0, 0, 0, 0), Cmd(16, 0, 0, 0, 0, 0), Cmd(32, 0, 0, 0, 0, 0),
     Cmd(160, 0, 0, 0, 0, 0), Cmd(48, 0, 0, 0, 0, 0)}

DeviceLens == {8}

\* A game in KEY1 mode sends the command c encrypted with its copy of the key buffer.
SendKey1(c, n) ==
    /\ stage = "Key1"
    /\ key_buf # 0
    /\ HandleRomCommand(EncryptCmd(key_buf, c), n)

(***************************************************************************)
(* Spec: the device under commands, setup and reset.                       *)
(***************************************************************************)
Init == InitWith({EncryptedRom, HomebrewRom}, Bioses)

Next ==
    \/ \E cmd \in RawCmds, n \in DeviceLens : HandleRomCommand(cmd, n)
    \/ \E c \in Key1Cmds, n \in DeviceLens : SendKey1(c, n)
    \/ \E direct_boot \in BOOLEAN, io \in BOOLEAN : Setup(direct_boot, io)
    \/ Reset

Spec == Init /\ [][Next]_vars

(***************************************************************************)
(* Claims about the stage.                                                 *)
(***************************************************************************)
StageRank(s) == IF s = "Initial" THEN 0 ELSE IF s = "Key1" THEN 1 ELSE 2

\* C1: a device starts in stage Initial; no handle_rom_command and no setup call
\* moves the stage to an earlier one (Initial < Key1 < Key2); a step that brings
\* the stage back to Initial is a reset.
C1_StageOneWay ==
    /\ stage = "Initial"
    /\ [][/\ last'.op \in {"cmd", "setup"} => StageRank(stage') >= StageRank(stage)
          /\ (stage # "Initial" /\ stage' = "Initial") => last'.op = "reset"]_vars

\* setup(direct_boot = false) was called in stage Key2 and the stage is still Key2
C1_Witness ==
    /\ last.op = "setup"
    /\ ~last.db
    /\ last.stage0 = "Key2"
    /\ stage = "Key2"

\* The first byte of the command as the stage Key1 sees it.
Key1Op(cmd) == DecryptCmd(key_buf, cmd)[1] \div 16

\* C2: in stage Initial a command with first byte 0x3C moves the stage to Key1 and
\* fills the output with 0xFF; in stage Key1 a command whose decrypted first byte
\* has high nibble 0xA moves the stage to Key2 and fills the output with zeros; no
\* command moves the stage from Initial to Key2, and every other command leaves
\* the stage as it was.
C2_StageTransitions ==
    last.op = "cmd" =>
        IF last.stage0 = "Initial" /\ last.cmd[1] = 60
        THEN last.res = "ok" /\ stage = "Key1" /\ output = Fill(last.n, 255)
        ELSE IF last.stage0 = "Key1" /\ key_buf # 0 /\ Key1Op(last.cmd) = 10
        THEN last.res = "ok" /\ stage = "Key2" /\ output = Fill(last.n, 0)
        ELSE stage = last.stage0

\* the two transitions in a row: 3C in Initial, then an Ax command in Key1
C2_Witness ==
    /\ last.op = "cmd"
    /\ last.stage0 = "Key1"
    /\ Key1Op(last.cmd) = 10
    /\ stage = "Key2"
    /\ last.n > 0
    /\ output = Fill(last.n, 0)

\* A command no arm of the stage's match serves.
Unrecognized(st, cmd) ==
    IF st = "Initial"
    THEN /\ cmd[1] # 60
         /\ ~(cmd[1] \in {159, 0, 144} /\ LowBitsZero(cmd))
    ELSE IF st = "Key1"
    THEN key_buf = 0 \/ Key1Op(cmd) \notin {4, 1, 2, 10}
    ELSE /\ cmd[1] # 183
         /\ ~(cmd[1] = 184 /\ LowBitsZero(cmd))

\* C3: an unrecognized command is never fatal, on a device with or without a key
\* buffer: it fills the output with 0xFF in stage Initial and with 0x00 in the
\* stages Key1 and Key2, and leaves the stage as it was.
C3_UnrecognizedFiller ==
    (last.op = "cmd" /\ Unrecognized(last.stage0, last.cmd)) =>
        /\ last.res = "ok"
        /\ output = Fill(last.n, IF last.stage0 = "Initial" THEN 255 ELSE 0)
        /\ stage = last.stage0

(***************************************************************************)
(* SpecPage: KEY2 data reads (B7) after a direct boot.                     *)
(***************************************************************************)
\* B7 at 0x4000, 0x10, 0x8FF8 (8 bytes before the end of a page) and 0x19000
\* (past the 0x18000 bytes of the commercial file, below its padded length).
PageCmds ==
    {Cmd(183, 0, 0, 64, 0, 0), Cmd(183, 0, 0, 0, 16, 0), Cmd(183, 0, 0, 143, 248, 0),
     Cmd(183, 0, 1, 144, 0, 0)}
\* 16 bytes and one page
PageLens == {16, 4096}

InitPage == InitWith({EncryptedRom, HomebrewRom}, {0})

NextPage ==
    \/ \E io \in BOOLEAN : Setup(TRUE, io)
    \/ \E cmd \in PageCmds, n \in PageLens : HandleRomCommand(cmd, n)

SpecPage == InitPage /\ [][NextPage]_vars

\* The byte of the contents at position p: the DLDI overlay where it lies, else
\* the secure-area overlay where it lies, else the file, zero past its end.
ContentsByte(p) ==
    IF dldi_area.st = "present" /\ p >= dldi_area_start /\ p < dldi_area_end
    THEN dldi_area.bytes[(p - dldi_area_start) + 1]
    ELSE IF /\ secure_area.st = "present"
            /\ p >= file.secure_area_start
            /\ p < file.secure_area_start + SecureAreaLen
    THEN secure_area.bytes[(p - file.secure_area_start) + 1]
    ELSE IF p < file.len THEN FileByte(file, p)
    ELSE 0

\* The address a B7 command reads at: the big-endian u32 at cmd[1..5] masked by
\* rom_mask, and 0x8000 | (A & 0x1FF) in its place when it is below 0x8000.
B7Addr(cmd) ==
    LET a == (((cmd[2] % 64) * 16777216) + (cmd[3] * 65536) + (cmd[4] * 256) + cmd[5])
             % (rom_mask + 1)
    IN IF a < 32768 THEN 32768 + (a % 512) ELSE a

\* C4: in stage Key2 a B7 command delivers out_len bytes, byte k being the contents
\* byte at page_start + ((A - page_start + k) mod 0x1000) of the 0x1000-byte page
\* of its address A, and the stage stays Key2.
C4_PageRead ==
    (last.op = "cmd" /\ last.stage0 = "Key2" /\ last.cmd[1] = 183) =>
        LET a == B7Addr(last.cmd)
            page_start == a - (a % 4096)
        IN /\ last.res = "ok"
           /\ stage = "Key2"
           /\ Len(output) = last.n
           /\ \A k \in 1..last.n :
                  output[k] = ContentsByte(page_start + (((a - page_start) + (k - 1)) % 4096))

S4Cmd == Cmd(183, 0, 0, 64, 0, 0)

\* C5 as stated: in stage Key2 the command B7 00 00 40 00 00 00 00 with a
\* 0x1000-byte output delivers the image bytes [0x4000, 0x5000).
C5_AsStated ==
    (last.op = "cmd" /\ last.stage0 = "Key2" /\ last.cmd = S4Cmd /\ last.n = 4096) =>
        /\ last.res = "ok"
        /\ output = [k \in 1..4096 |-> ContentsByte(16384 + (k - 1))]

\* C5, amended: in stage Key2 the command B7 00 00 40 00 00 00 00 with a
\* 0x1000-byte output delivers what the contents return for [0x8000, 0x9000), in
\* one read_slice(0x8000, ..): the address 0x4000 is below 0x8000 and is redirected
\* to 0x8000 | (0x4000 & 0x1FF).
C5_ReadsPage8000 ==
    (last.op = "cmd" /\ last.stage0 = "Key2" /\ last.cmd = S4Cmd /\ last.n = 4096) =>
        LET r == read_slice(32768, 4096)
        IN /\ (last.res = "ok") = r.ok
           /\ r.ok => output = r.out
           /\ stage = "Key2"

\* the command was served, with the file's bytes [0x8000, 0x9000)
C5_Witness ==
    /\ last.op = "cmd"
    /\ last.stage0 = "Key2"
    /\ last.cmd = S4Cmd
    /\ last.n = 4096
    /\ last.res = "ok"
    /\ output = FileBytes(file, 32768, 4096)

(***************************************************************************)
(* SpecChip: the chip ID of images of every size class.                    *)
(***************************************************************************)
\* File lengths: 0x20000, 0x80001 (rounded up to 0x100000), 0x100000, 0x800000,
\* 0x8000000, 0x10000000 and 0x20000000.
ChipFileLens == {131072, 524289, 1048576, 8388608, 134217728, 268435456, 536870912}
ChipFiles == {[len |-> l, secure_area_start |-> 16384, plain |-> FALSE] : l \in ChipFileLens}
\* 90, 3C and B8
ChipCmds == {Cmd(144, 0, 0, 0, 0, 0), Cmd(60, 0, 0, 0, 0, 0), Cmd(184, 0, 0, 0, 0, 0)}
\* 1x and Ax
ChipKey1Cmds == {Cmd(16, 0, 0, 0, 0, 0), Cmd(160, 0, 0, 0, 0, 0)}

InitChip == InitWith(ChipFiles, Bioses)

NextChip ==
    \/ \E cmd \in ChipCmds, n \in DeviceLens : HandleRomCommand(cmd, n)
    \/ \E c \in ChipKey1Cmds, n \in DeviceLens : SendKey1(c, n)

SpecChip == InitChip /\ [][NextChip]_vars

\* The size class of an image of len bytes.
SizeClass(len) ==
    IF len < 1048576 THEN 0
    ELSE IF len < 268435456 THEN (len \div 1048576) - 1
    ELSE 256 - (len \div 268435456)

\* C6: the chip ID has low byte 0xC2 and its upper bytes hold the size class of
\* the image length: 0 under 1 MiB, (len in MiB) - 1 from 1 MiB to 256 MiB,
\* 256 - (len in 256-MiB units) from 256 MiB on.
C6_ChipId ==
    /\ chip_id % 256 = 194
    /\ chip_id \div 256 = SizeClass(rom_mask + 1)

(***************************************************************************)
(* SpecRead: RomDevice::read on small images.                              *)
(***************************************************************************)
\* A homebrew file of 0x180 bytes (rounded up to 0x200) and one of 0x200 bytes.
ReadFiles == {[len |-> 384, secure_area_start |-> 512, plain |-> FALSE],
              [len |-> 512, secure_area_start |-> 512, plain |-> FALSE]}
\* 0, 0x17D (3 bytes before the end of the shorter file), 0x190 (past it), 0x1FD
\* (3 bytes before the rounded length) and 0x205 (masked to 5)
ReadAddrs == {0, 381, 400, 509, 517}
\* nothing, 4 and 10 bytes, the image, the image and 10 bytes, twice the image and 10 bytes
ReadLens == {0, 4, 10, 512, 522, 1034}

InitRead == InitWith(ReadFiles, Bioses)

NextRead == \E a \in ReadAddrs, n \in ReadLens : Read(a, n)

SpecRead == InitRead /\ [][NextRead]_vars

\* C7: read(addr, out) fills out so that out[k] is the contents byte at
\* ((addr & rom_mask) + k) mod len, for every k below the length n of out.
C7_ReadWraps ==
    last.op = "read" =>
        /\ last.res = "ok"
        /\ Len(output) = last.n
        /\ \A k \in 1..last.n :
               output[k] = ContentsByte(((last.addr % (rom_mask + 1)) + (k - 1)) % (rom_mask + 1))

(***************************************************************************)
(* SpecFile: the file backend under read_slice and its two overlays.       *)
(***************************************************************************)
\* 0x6000
DldiAddr == 16384 + 8192
DldiLens == {SecureAreaLen - 8, SecureAreaLen, SecureAreaLen + 8}
\* Around the secure area, around the DLDI area, around the end of the file.
SliceAddrs ==
    {16384 - 4, 16384, 16384 + 4, DldiAddr - 4, DldiAddr, DldiAddr + SecureAreaLen,
     98304 - 4, 98304, 98304 + 4}
SliceLens == {0, 8, SecureAreaLen + 8}

InitFile == InitWith({EncryptedRom}, {0})

NextFile ==
    \/ \E addr \in SliceAddrs, n \in SliceLens : ReadSlice(addr, n)
    \/ \E io \in BOOLEAN : SecureAreaMut(io, 0, <<1, 2, 3, 4>>)
    \/ \E len \in DldiLens, io \in BOOLEAN : DldiAreaMut(DldiAddr, len, io, <<5, 6>>)

SpecFile == InitFile /\ [][NextFile]_vars

\* The range [addr, addr + n) intersects the window [start, end).
Intersects(addr, n, start, end) == addr < end /\ addr + n > start

\* C8: with an overlay materialized, a read_slice whose range intersects the
\* overlay's window in any way succeeds and returns the overlay's bytes at the
\* intersecting positions and the image's bytes elsewhere.
C8_OverlayComposite ==
    (/\ last.op = "read_slice"
     /\ \/ /\ secure_area.st = "present"
           /\ Intersects(last.addr, last.n, file.secure_area_start,
                         file.secure_area_start + SecureAreaLen)
        \/ /\ dldi_area.st = "present"
           /\ Intersects(last.addr, last.n, dldi_area_start, dldi_area_end))
    => /\ last.res = "ok"
       /\ Len(output) = last.n
       /\ \A k \in 1..last.n : output[k] = ContentsByte(last.addr + (k - 1))

\* C9: with no overlay materialized, a read_slice within the rounded length
\* succeeds and returns the file's bytes below the file's length and 0 from there
\* on, reads that start past the file's length included.
C9_ZeroPadding ==
    (/\ last.op = "read_slice"
     /\ last.addr + last.n <= ContentsLen
     /\ secure_area.st # "present"
     /\ dldi_area.st # "present")
    => /\ last.res = "ok"
       /\ Len(output) = last.n
       /\ \A k \in 1..last.n :
              output[k] = IF last.addr + (k - 1) < file.len
                          THEN FileByte(file, last.addr + (k - 1))
                          ELSE 0

(***************************************************************************)
(* SpecSetup: setup and reset on encrypted, decrypted and homebrew images. *)
(***************************************************************************)
InitSetup == InitWith({EncryptedRom, DecryptedRom, HomebrewRom}, Bioses)

NextSetup ==
    \/ \E direct_boot \in BOOLEAN, io \in BOOLEAN : Setup(direct_boot, io)
    \/ Reset

SpecSetup == InitSetup /\ [][NextSetup]_vars

\* C10: on a commercial image with a key buffer and a secure area that starts
\* with the magic, setup(false) followed by setup(true) leaves every byte of the
\* secure area as it was before the first call.
C10_SetupRoundTrip ==
    (/\ last.op = "setup"
     /\ last.db
     /\ last.prev # <<>>
     /\ ~last.prev[1].db
     /\ key_buf # 0
     /\ ~is_homebrew
     /\ StartsWithMagic(last.prev[1].sa0))
    => /\ last.res = "ok"
       /\ secure_area.st = "present"
       /\ secure_area.bytes = last.prev[1].sa0

\* C11: setup(true) on a commercial image whose secure area begins with the magic
\* succeeds, with or without a key buffer, and leaves every byte of the secure
\* area as it was; so does every repetition of the call.
C11_PlaintextIdempotent ==
    (/\ last.op = "setup"
     /\ last.db
     /\ ~is_homebrew
     /\ StartsWithMagic(last.sa0))
    => /\ last.res = "ok"
       /\ secure_area.st = "present"
       /\ secure_area.bytes = last.sa0

\* setup(true) repeated on a plaintext secure area of a device without a key
\* buffer: the second call found the area the first one left
C11_Witness ==
    /\ last.op = "setup"
    /\ last.db
    /\ key_buf = 0
    /\ ~is_homebrew
    /\ StartsWithMagic(last.sa0)
    /\ last.prev = <<[db |-> TRUE, res |-> "ok", sa0 |-> last.sa0]>>
    /\ secure_area.bytes = last.sa0

\* The secure area a setup call got from secure_area_mut: Some(..) or None.
Materialized(sa0) == Len(sa0) = SecureAreaLen

\* C12: setup returns an error exactly when direct_boot is true, the image is
\* commercial, the materialized secure area does not begin with the magic and
\* there is no key buffer; every other call returns success.
C12_SetupError ==
    last.op = "setup" =>
        IF /\ last.db
           /\ ~is_homebrew
           /\ Materialized(last.sa0)
           /\ ~StartsWithMagic(last.sa0)
           /\ key_buf = 0
        THEN last.res = "err"
        ELSE last.res = "ok"

\* C13: a setup call whose secure_area_mut returns None succeeds and changes
\* neither the stage nor an overlay, for either value of direct_boot.
C13_MissingSecureAreaNoOp ==
    [][(/\ last'.op = "setup"
        /\ ~(last'.db /\ is_homebrew)
        /\ secure_area'.st = "failed")
       => /\ last'.res = "ok"
          /\ stage' = stage
          /\ secure_area'.bytes = secure_area.bytes
          /\ UNCHANGED <<dldi_area, dldi_area_start, dldi_area_end>>]_vars

\* C20: setup(false) never changes the stage; when the secure area it
\* materialized does not begin with the magic it succeeds and changes nothing,
\* with or without a key buffer; setup(true) on a homebrew image sets the stage
\* to Key2 and neither materializes nor modifies the secure area.
C20_SetupFrame ==
    [][last'.op = "setup" =>
          /\ ~last'.db => stage' = stage
          /\ (~last'.db /\ Materialized(last'.sa0) /\ ~StartsWithMagic(last'.sa0))
             => /\ last'.res = "ok"
                /\ secure_area'.bytes = last'.sa0
                /\ UNCHANGED <<dldi_area, dldi_area_start, dldi_area_end, deviceVars>>
          /\ (last'.db /\ is_homebrew)
             => /\ last'.res = "ok"
                /\ stage' = "Key2"
                /\ secure_area' = secure_area]_vars

\* C14: reset, in any stage, leaves a device in stage Initial with the same
\* contents (the overlays and their bytes included), rom_mask, chip ID and key
\* buffer.
C14_ResetFrame ==
    [][last'.op = "reset" =>
          /\ stage' = "Initial"
          /\ last'.res = "ok"
          /\ UNCHANGED <<file, contentsVars, deviceVars>>]_vars

\* reset in stage Key2 of a device whose secure area a direct boot decrypted
C14_Witness ==
    /\ last.op = "reset"
    /\ last.stage0 = "Key2"
    /\ stage = "Initial"
    /\ key_buf # 0
    /\ secure_area.st = "present"
    /\ secure_area.bytes # FileBytes(file, file.secure_area_start, SecureAreaLen)

(***************************************************************************)
(* SpecCipher: the block cipher alone, on words and key buffers of choice. *)
(***************************************************************************)
\* encrypt_64_bit of the key buffer k on the pair p; the result is the output.
Encrypt64Bit(k, p) ==
    /\ ~panicked
    /\ output' = encrypt_64_bit(k, p)
    /\ Called([NoCall EXCEPT !.op = "encrypt_64_bit", !.addr = k, !.cmd = p, !.stage0 = stage])
    /\ UNCHANGED <<fixedVars, contentsVars, deviceVars, stage, setups>>

\* decrypt_64_bit of the key buffer k on the pair p
Decrypt64Bit(k, p) ==
    /\ ~panicked
    /\ output' = decrypt_64_bit(k, p)
    /\ Called([NoCall EXCEPT !.op = "decrypt_64_bit", !.addr = k, !.cmd = p, !.stage0 = stage])
    /\ UNCHANGED <<fixedVars, contentsVars, deviceVars, stage, setups>>

\* 0, 0xFFFFFFFF, 0x12345678 and 0x80000001
CipherWords == {<<0, 0>>, <<65535, 65535>>, <<4660, 22136>>, <<32768, 1>>}
\* Two level-2 key buffers (2, 4) and their level-3 buffers (3, 5).
CipherKeys == {2, level_3(2), 4, level_3(4)}

InitCipher == InitWith({HomebrewRom}, {0})

NextCipher ==
    \/ \E k \in CipherKeys, a \in CipherWords, b \in CipherWords : Encrypt64Bit(k, <<a, b>>)
    \/ \E k \in CipherKeys, a \in CipherWords, b \in CipherWords : Decrypt64Bit(k, <<a, b>>)

SpecCipher == InitCipher /\ [][NextCipher]_vars

\* C15: with any key buffer, decrypt_64_bit undoes encrypt_64_bit and
\* encrypt_64_bit undoes decrypt_64_bit, on every pair of words, each taking
\* the pair as the other returned it.
C15_CipherRoundTrip ==
    /\ last.op = "encrypt_64_bit" => decrypt_64_bit(last.addr, output) = last.cmd
    /\ last.op = "decrypt_64_bit" => encrypt_64_bit(last.addr, output) = last.cmd

\* 0x12345678, 0x80000001 encrypted with a level-3 buffer to another pair
C15_Witness ==
    /\ last.op = "encrypt_64_bit"
    /\ last.addr = level_3(2)
    /\ last.cmd = <<<<4660, 22136>>, <<32768, 1>>>>
    /\ output # last.cmd
    /\ decrypt_64_bit(last.addr, output) = last.cmd

(***************************************************************************)
(* SpecOverlay: the two overlays of the file backend under repeated calls  *)
(* of their accessors.                                                     *)
(***************************************************************************)
OverlayDldiAddrs == {DldiAddr, DldiAddr + 8}
\* What the caller stores through the slice it got: nothing, or some bytes.
SecureWrites == {<<>>, <<1, 2, 3, 4>>}
DldiWrites == {<<>>, <<5, 6>>}

InitOverlay == InitWith({EncryptedRom}, {0})

NextOverlay ==
    \/ \E io \in BOOLEAN, off \in {0, 4}, w \in SecureWrites : SecureAreaMut(io, off, w)
    \/ \E addr \in OverlayDldiAddrs, len \in DldiLens, io \in BOOLEAN, w \in DldiWrites :
           DldiAreaMut(addr, len, io, w)
    \/ \E addr \in {16384, DldiAddr} : ReadSlice(addr, 8)

SpecOverlay == InitOverlay /\ [][NextOverlay]_vars

\* bytes with only its first n positions possibly changed into those of after
SameFrom(bytes, after, n) ==
    /\ Len(after) = Len(bytes)
    /\ \A i \in 1..Len(bytes) : i > n => after[i] = bytes[i]

\* C16: the first dldi_area_mut(addr, len) sets the window to [addr, addr + len);
\* every later call, whatever its addr and len, leaves the window and the
\* overlay's bytes as they are and returns the same overlay, or None again when
\* the first call failed.
C16_DldiWindowFixed ==
    [][last'.op = "dldi_area_mut" =>
          IF dldi_area.st = "none"
          THEN /\ dldi_area_start' = last'.addr
               /\ dldi_area_end' = last'.addr + last'.n
               /\ dldi_area'.st \in {"present", "failed"}
               /\ (last'.res = "ok") = (dldi_area'.st = "present")
               /\ dldi_area'.st = "present" => Len(dldi_area'.bytes) = last'.n
          ELSE /\ UNCHANGED <<dldi_area_start, dldi_area_end>>
               /\ dldi_area'.st = dldi_area.st
               /\ (last'.res = "ok") = (dldi_area.st = "present")
               /\ SameFrom(dldi_area.bytes, dldi_area'.bytes, Len(last'.cmd))
               /\ last'.cmd = <<>> => dldi_area' = dldi_area]_vars

\* a later call with another addr and another len, on an overlay that holds
\* what its caller stored: the window and the bytes are those of before
C16_Witness ==
    /\ last.op = "dldi_area_mut"
    /\ last.res = "ok"
    /\ last.cmd = <<>>
    /\ last.prev = <<dldi_area>>
    /\ dldi_area.st = "present"
    /\ SubSeq(dldi_area.bytes, 1, 2) = <<5, 6>>
    /\ last.addr # dldi_area_start
    /\ last.addr + last.n # dldi_area_end
    /\ last.n # Len(dldi_area.bytes)

\* C17: secure_area_mut reads the file on its first call only; it returns None
\* iff that read failed, a failure is remembered (later calls return None and
\* read nothing), and a present overlay keeps what its callers stored.
C17_SecureAreaOnce ==
    [][last'.op = "secure_area_mut" =>
          /\ (last'.res = "err") = (secure_area'.st = "failed")
          /\ secure_area'.st \in {"present", "failed"}
          /\ secure_area.st = "failed" => secure_area' = secure_area
          /\ secure_area.st = "present"
             => secure_area'.bytes = Store(secure_area.bytes, last'.addr, last'.cmd)
          /\ (secure_area.st = "none" /\ secure_area'.st = "present")
             => secure_area'.bytes =
                    Store(FileBytes(file, file.secure_area_start, SecureAreaLen),
                          last'.addr, last'.cmd)]_vars

\* a later call on a present overlay that differs from the file: it is returned
\* as it was left
C17_Witness ==
    /\ last.op = "secure_area_mut"
    /\ last.res = "ok"
    /\ last.cmd = <<>>
    /\ last.prev = <<secure_area>>
    /\ secure_area.st = "present"
    /\ SubSeq(secure_area.bytes, 1, 4) = <<1, 2, 3, 4>>
    /\ secure_area.bytes # FileBytes(file, file.secure_area_start, SecureAreaLen)

(***************************************************************************)
(* icon::decode_to_rgba8.  A colour (u32) is a pair of 16-bit halves.      *)
(***************************************************************************)
\* The width bits of v from bit lo on: (v >> lo) & (2^width - 1).
Field(v, lo, width) == (v \div (2 ^ lo)) % (2 ^ width)

\* icon_data.read_le::<u16>(0x200 | i << 1)
RawColor(data, i) == data[512 + (2 * i) + 1] + (256 * data[512 + (2 * i) + 2])

\* (raw_color << 1 & 0x3E) | (raw_color << 4 & 0x3E00) | (raw_color << 7 & 0x3E_0000)
Rgb6(raw_color) ==
    (Field(raw_color * 2, 1, 5) * 2) + (Field(raw_color * 16, 9, 5) * 512)
    + (Field(raw_color * 128, 17, 5) * 131072)

\* 0xFF00_0000 | rgb6 << 2 | (rgb6 >> 4 & 0x03_0303): the fields do not overlap.
IconColor(raw_color) ==
    LET rgb6 == Rgb6(raw_color)
        low == (rgb6 * 4) + Field(rgb6 \div 16, 0, 2) + (Field(rgb6 \div 16, 8, 2) * 256)
               + (Field(rgb6 \div 16, 16, 2) * 65536)
    IN <<65280 + (low \div 65536), low % 65536>>

\* palette: entry 0 stays 0, entries 1..15 are decoded
IconPalette(data) ==
    [i \in 0..15 |-> IF i = 0 THEN <<0, 0>> ELSE IconColor(RawColor(data, i))]

\* for src_tile_line_base in (0..0x200).step_by(4)
TileLines == {4 * l : l \in 0..127}

\* tile_y << 8 | y_in_tile << 5 | tile_x << 3
DstTileLineBase(src_tile_line_base) ==
    LET tile_y == src_tile_line_base \div 128
        tile_x == (src_tile_line_base \div 32) % 4
        y_in_tile == (src_tile_line_base \div 4) % 8
    IN (tile_y * 256) + (y_in_tile * 32) + (tile_x * 8)

\* The source lines the loop writes to the 8 pixels from 8 * b on.
LinesWriting == [b \in 0..127 |-> {s \in TileLines : DstTileLineBase(s) = 8 * b}]

Max(S) == CHOOSE m \in S : \A o \in S : o <= m

\* (src_line >> (x_in_tile << 2)) & 0xF of the line read at s
Nibble(data, s, x_in_tile) ==
    LET byte == data[s + (x_in_tile \div 2) + 1]
    IN IF x_in_tile % 2 = 0 THEN byte % 16 ELSE byte \div 16

\* pixels after the loop: 0 where no line wrote, else what the last line wrote
IconPixels(data) ==
    LET palette == IconPalette(data)
    IN [d \in 1..1024 |->
           LET S == LinesWriting[(d - 1) \div 8]
           IN IF S = {} THEN <<0, 0>>
              ELSE palette[Nibble(data, Max(S), (d - 1) % 8)]]

\* decode_to_rgba8(icon_title_offset, contents): None, a panic of read_slice, or
\* Some(pixels).
decode_to_rgba8(icon_title_offset) ==
    IF icon_title_offset + 576 > ContentsLen THEN [res |-> "none", out |-> <<>>]
    ELSE LET r == read_slice(icon_title_offset + 32, 544)
         IN IF r.ok THEN [res |-> "ok", out |-> IconPixels(r.out)]
            ELSE [res |-> "panic", out |-> <<>>]

DecodeIcon(icon_title_offset) ==
    /\ ~panicked
    /\ LET r == decode_to_rgba8(icon_title_offset)
       IN /\ output' = r.out
          /\ Called([NoCall EXCEPT !.op = "decode_to_rgba8", !.addr = icon_title_offset,
                                   !.stage0 = stage, !.res = r.res])
    /\ UNCHANGED <<fixedVars, contentsVars, deviceVars, stage, setups>>

(***************************************************************************)
(* SpecIcon: icons decoded at offsets all over the images.                 *)
(***************************************************************************)
\* Every 0x2000 from 0 to 0x1E000, and 0x17E00 (icon data across the end of the
\* 0x18000-byte file), 0xFDC0 and 0x1FDC0 (offset + 0x240 = 0x10000, 0x20000),
\* 0xFDC4, 0x1FE00.
IconOffsets == {8192 * k : k \in 0..15} \cup {97792, 64960, 130496, 64964, 130560}

InitIcon == InitWith({EncryptedRom, DecryptedRom, HomebrewRom}, {0})

NextIcon == \E icon_title_offset \in IconOffsets : DecodeIcon(icon_title_offset)

SpecIcon == InitIcon /\ [][NextIcon]_vars

\* The palette index of pixel x of the source line at s of the icon at off.
SourceIndex(off, s, x) ==
    LET byte == ContentsByte(off + 32 + s + (x \div 2))
    IN IF x % 2 = 0 THEN byte % 16 ELSE byte \div 16

\* The colour the decoder gives to palette index i of the icon at off.
SourcePalette(off, i) ==
    IF i = 0 THEN <<0, 0>>
    ELSE IconColor(ContentsByte(off + 32 + 512 + (2 * i))
                   + (256 * ContentsByte(off + 32 + 512 + (2 * i) + 1)))

\* C18: decode_to_rgba8 returns no icon when offset + 0x240 > len(); for every
\* other offset it returns 1024 pixels, where pixel x (low nibble first) of the
\* source line at s is at index (s >> 7) * 256 + ((s >> 2) & 7) * 32 +
\* ((s >> 5) & 3) * 8 + x with the colour of its palette index, 0 for index 0.
C18_IconLayout ==
    last.op = "decode_to_rgba8" =>
        IF last.addr + 576 > ContentsLen THEN last.res = "none"
        ELSE /\ last.res = "ok"
             /\ Len(output) = 1024
             /\ \A s \in TileLines, x \in 0..7 :
                    LET i == SourceIndex(last.addr, s, x)
                        d == ((s \div 128) * 256) + (((s \div 4) % 8) * 32)
                             + (((s \div 32) % 4) * 8) + x
                    IN /\ i = 0 => output[d + 1] = <<0, 0>>
                       /\ output[d + 1] = SourcePalette(last.addr, i)

\* c8 = (c5 << 3) | (c5 >> 2)
Expand5(c5) == (c5 * 8) + (c5 \div 4)

\* 0xFF << 24 | R | G << 8 | B << 16 of a BGR555 entry
Rgba8(raw_color) ==
    LET r == Expand5(raw_color % 32)
        g == Expand5((raw_color \div 32) % 32)
        b == Expand5((raw_color \div 1024) % 32)
    IN <<65280 + b, (g * 256) + r>>

\* C19: a pixel with palette index 1..15 has the colour 0xFF << 24 | R | G << 8 |
\* B << 16 of its BGR555 palette entry, each channel c8 = (c5 << 3) | (c5 >> 2).
C19_PaletteColours ==
    (last.op = "decode_to_rgba8" /\ last.res = "ok") =>
        \A s \in TileLines, x \in 0..7 :
            LET i == SourceIndex(last.addr, s, x)
                p == last.addr + 32 + 512 + (2 * i)
                d == DstTileLineBase(s) + x
            IN i # 0 => output[d + 1] = Rgba8(ContentsByte(p) + (256 * ContentsByte(p + 1)))

(***************************************************************************)
(* Claims about the key buffer in stage Key1 and about setup across reset. *)
(***************************************************************************)
\* C21: in every reachable state, stage Key1 implies that the device has a key
\* buffer, and every command handled in stage Key1 completes without aborting;
\* also on a device constructed without an ARM7 BIOS.
C21_Key1HasKey ==
    /\ stage = "Key1" => key_buf # 0
    /\ (last.op = "cmd" /\ last.stage0 = "Key1") => last.res = "ok"

\* C22: a setup call that returns an error leaves the stage as it was and the
\* bytes of the secure area as it found them.
C22_SetupErrorFrame ==
    [][(last'.op = "setup" /\ last'.res = "err")
       => /\ stage' = stage
          /\ secure_area'.bytes = last'.sa0]_vars

\* C23: on a commercial image with a key buffer, setup(true), reset, setup(true)
\* leaves the secure area with the bytes it had after the first setup(true).
C23_DirectBootIdempotent ==
    (/\ last.op = "setup"
     /\ last.db
     /\ last.before # <<>>
     /\ last.before[1].db
     /\ last.before[1].res = "ok"
     /\ ~is_homebrew
     /\ key_buf # 0)
    => /\ last.res = "ok"
       /\ secure_area.bytes = last.before[1].sa1

====
